---- MODULE Spec2Model ----
(***************************************************************************)
(* Mass Knob Modifier: a batch editor that sets one shared parameter       *)
(* ("knob") on many nodes of a compositing graph, either to a literal      *)
(* value or to an expression.                                              *)
(*                                                                         *)
(* Two scripts are modelled:                                               *)
(*   "modes"     src/MassKnobModifier/MassKnobModifier.py (mode-aware)     *)
(*   "selection" src/MassKnobModifier.py (selection only, no coercion)     *)
(*                                                                         *)
(* Text is a sequence of one-character strings, so that strip, lower,      *)
(* split, int(), float() and str() are computed character by character.    *)
(* A Python float is modelled by the exact decimal it was written as:      *)
(* mantissa n (no trailing zero) times ten to the power e.  The input      *)
(* alphabet holds no sign and no underscore character.                     *)
(***************************************************************************)
EXTENDS Integers, Sequences, FiniteSets, TLC

(***************************************************************************)
(* Bounds of the model.                                                    *)
(***************************************************************************)
\* longest value text drawn exhaustively from Alphabet
MaxLen == 3
\* number of nodes in the scene
NumNodes == 3

(***************************************************************************)
(* Text helpers (Python str methods).                                      *)
(***************************************************************************)
Whitespace == {" ", "\n"}

RECURSIVE lstrip(_)
lstrip(s) ==
    IF s # <<>> /\ Head(s) \in Whitespace THEN lstrip(Tail(s)) ELSE s

RECURSIVE rstrip(_)
rstrip(s) ==
    IF s # <<>> /\ s[Len(s)] \in Whitespace
    THEN rstrip(SubSeq(s, 1, Len(s) - 1))
    ELSE s

strip(s) == lstrip(rstrip(s))

LowerOf ==
    [c \in {"A", "B", "C", "D", "E", "F", "G", "H", "I", "J", "K", "L", "M", "N", "O", "P", "Q", "R", "S", "T", "U", "V", "W", "X", "Y", "Z"} |->
        CASE c = "A" -> "a" [] c = "B" -> "b" [] c = "C" -> "c" [] c = "D" -> "d"
          [] c = "E" -> "e" [] c = "F" -> "f" [] c = "G" -> "g" [] c = "H" -> "h"
          [] c = "I" -> "i" [] c = "J" -> "j" [] c = "K" -> "k" [] c = "L" -> "l"
          [] c = "M" -> "m" [] c = "N" -> "n" [] c = "O" -> "o" [] c = "P" -> "p"
          [] c = "Q" -> "q" [] c = "R" -> "r" [] c = "S" -> "s" [] c = "T" -> "t"
          [] c = "U" -> "u" [] c = "V" -> "v" [] c = "W" -> "w" [] c = "X" -> "x"
          [] c = "Y" -> "y" [] c = "Z" -> "z"]

lower(s) == [i \in 1..Len(s) |-> IF s[i] \in DOMAIN LowerOf THEN LowerOf[s[i]] ELSE s[i]]

Contains(s, c) == \E i \in 1..Len(s) : s[i] = c

startswith(s, c) == s # <<>> /\ Head(s) = c

\* s.split(","): the parts between commas, empty parts kept
RECURSIVE split(_)
split(s) ==
    IF ~Contains(s, ",")
    THEN <<s>>
    ELSE LET i == CHOOSE k \in 1..Len(s) : s[k] = "," /\ \A j \in 1..(k - 1) : s[j] # ","
         IN  <<SubSeq(s, 1, i - 1)>> \o split(SubSeq(s, i + 1, Len(s)))

\* sep.join(parts)
RECURSIVE join(_, _)
join(sep, parts) ==
    IF parts = <<>> THEN <<>>
    ELSE IF Len(parts) = 1 THEN parts[1]
    ELSE parts[1] \o sep \o join(sep, Tail(parts))

(***************************************************************************)
(* Numbers: int(), float() and str() over decimal digits.                  *)
(***************************************************************************)
Digits == {"0", "1", "2", "3", "4", "5", "6", "7", "8", "9"}

DigitVal(c) ==
    CASE c = "0" -> 0 [] c = "1" -> 1 [] c = "2" -> 2 [] c = "3" -> 3 [] c = "4" -> 4
      [] c = "5" -> 5 [] c = "6" -> 6 [] c = "7" -> 7 [] c = "8" -> 8 [] c = "9" -> 9

DigitChar(d) ==
    CASE d = 0 -> "0" [] d = 1 -> "1" [] d = 2 -> "2" [] d = 3 -> "3" [] d = 4 -> "4"
      [] d = 5 -> "5" [] d = 6 -> "6" [] d = 7 -> "7" [] d = 8 -> "8" [] d = 9 -> "9"

AllDigits(s) == \A i \in 1..Len(s) : s[i] \in Digits

RECURSIVE DigitsToNat(_)
DigitsToNat(s) ==
    IF s = <<>> THEN 0
    ELSE 10 * DigitsToNat(SubSeq(s, 1, Len(s) - 1)) + DigitVal(s[Len(s)])

RECURSIVE NatToDigits(_)
NatToDigits(n) ==
    IF n < 10 THEN <<DigitChar(n)>>
    ELSE NatToDigits(n \div 10) \o <<DigitChar(n % 10)>>

RECURSIVE Zeros(_)
Zeros(k) == IF k <= 0 THEN <<>> ELSE <<"0">> \o Zeros(k - 1)

\* int(p) succeeds: one or more decimal digits
IntOk(p) == p # <<>> /\ AllDigits(p)

\* position of the exponent letter, 0 when there is none
ExpPos(p) ==
    IF \E i \in 1..Len(p) : p[i] \in {"e", "E"}
    THEN CHOOSE i \in 1..Len(p) : p[i] \in {"e", "E"} /\ \A j \in 1..(i - 1) : p[j] \notin {"e", "E"}
    ELSE 0

Mantissa(p) == IF ExpPos(p) = 0 THEN p ELSE SubSeq(p, 1, ExpPos(p) - 1)
Exponent(p) == IF ExpPos(p) = 0 THEN <<>> ELSE SubSeq(p, ExpPos(p) + 1, Len(p))

DotPos(m) ==
    IF Contains(m, ".")
    THEN CHOOSE i \in 1..Len(m) : m[i] = "." /\ \A j \in 1..(i - 1) : m[j] # "."
    ELSE 0

IntPart(m) == IF DotPos(m) = 0 THEN m ELSE SubSeq(m, 1, DotPos(m) - 1)
FracPart(m) == IF DotPos(m) = 0 THEN <<>> ELSE SubSeq(m, DotPos(m) + 1, Len(m))

\* float(p) succeeds: digits with at most one point and at least one digit,
\* then optionally an exponent letter followed by one or more digits
FloatOk(p) ==
    /\ AllDigits(IntPart(Mantissa(p)))
    /\ AllDigits(FracPart(Mantissa(p)))
    /\ Len(IntPart(Mantissa(p))) + Len(FracPart(Mantissa(p))) > 0
    /\ ExpPos(p) # 0 => IntOk(Exponent(p))

\* drop the trailing zeros of a mantissa, raising the exponent
RECURSIVE Normalize(_, _)
Normalize(n, e) ==
    IF n = 0 THEN <<0, 0>>
    ELSE IF n % 10 = 0 THEN Normalize(n \div 10, e + 1)
    ELSE <<n, e>>

FloatOf(p) ==
    Normalize(DigitsToNat(IntPart(Mantissa(p)) \o FracPart(Mantissa(p))),
              DigitsToNat(Exponent(p)) - Len(FracPart(Mantissa(p))))

(***************************************************************************)
(* Values handed to the host: a tagged union in one record shape.          *)
(***************************************************************************)
VBool(b) == [tag |-> "bool", n |-> IF b THEN 1 ELSE 0, e |-> 0, s |-> <<>>, items |-> <<>>]
VInt(n) == [tag |-> "int", n |-> n, e |-> 0, s |-> <<>>, items |-> <<>>]
VFloat(ne) == [tag |-> "float", n |-> ne[1], e |-> ne[2], s |-> <<>>, items |-> <<>>]
VStr(s) == [tag |-> "str", n |-> 0, e |-> 0, s |-> s, items |-> <<>>]
VList(items) == [tag |-> "list", n |-> 0, e |-> 0, s |-> <<>>, items |-> items]
\* a raised ValueError carrying its message
Raise(msg) == [tag |-> "raise", n |-> 0, e |-> 0, s |-> <<msg>>, items |-> <<>>]

\* repr of a float n * 10^e, in the positional range Python prints without exponent
FloatStr(n, e) ==
    LET d == NatToDigits(n)
    IN  IF e >= 0 THEN d \o Zeros(e) \o <<".", "0">>
        ELSE IF Len(d) > -e
             THEN SubSeq(d, 1, Len(d) + e) \o <<".">> \o SubSeq(d, Len(d) + e + 1, Len(d))
             ELSE <<"0", ".">> \o Zeros(-e - Len(d)) \o d

\* str(x) of a scalar
ScalarStr(x) ==
    CASE x.tag = "bool" -> IF x.n = 1 THEN <<"T", "r", "u", "e">> ELSE <<"F", "a", "l", "s", "e">>
      [] x.tag = "int" -> NatToDigits(x.n)
      [] x.tag = "float" -> FloatStr(x.n, x.e)
      [] x.tag = "str" -> x.s

\* repr(x) of a list element: a string is quoted
ScalarRepr(x) == IF x.tag = "str" THEN <<"'">> \o x.s \o <<"'">> ELSE ScalarStr(x)

\* str(x)
Str(x) ==
    IF x.tag = "list"
    THEN <<"[">> \o join(<<",", " ">>, [i \in 1..Len(x.items) |-> ScalarRepr(x.items[i])]) \o <<"]">>
    ELSE ScalarStr(x)

(***************************************************************************)
(* _parse_value                                                            *)
(***************************************************************************)
TrueWords == {<<"t", "r", "u", "e">>, <<"y", "e", "s">>, <<"o", "n">>}
FalseWords == {<<"f", "a", "l", "s", "e">>, <<"n", "o">>, <<"o", "f", "f">>}

\* float(p) if ("." in p or "e" in p.lower()) else int(p)
IsFloatText(p) == Contains(p, ".") \/ Contains(lower(p), "e")
NumberOk(p) == IF IsFloatText(p) THEN FloatOk(p) ELSE IntOk(p)
NumberOf(p) == IF IsFloatText(p) THEN VFloat(FloatOf(p)) ELSE VInt(DigitsToNat(p))

\* a faulty variant of ParseParts: the parts parsed so far stay numbers when a later part fails
RECURSIVE ParsePartsMixed(_, _, _)
ParsePartsMixed(parts, i, parsed) ==
    IF i > Len(parts) THEN VList(parsed)
    ELSE IF NumberOk(parts[i]) THEN ParsePartsMixed(parts, i + 1, Append(parsed, NumberOf(parts[i])))
    ELSE VList(parsed \o [j \in 1..(Len(parts) - i + 1) |-> VStr(parts[i + j - 1])])

\* the loop over parts: the first part that fails returns all parts as strings
RECURSIVE ParseParts(_, _, _)
ParseParts(parts, i, parsed) ==
    IF i > Len(parts) THEN VList(parsed)
    ELSE IF NumberOk(parts[i]) THEN ParseParts(parts, i + 1, Append(parsed, NumberOf(parts[i])))
    ELSE VList([j \in 1..Len(parts) |-> VStr(parts[j])])

_parse_value(value_str) ==
    LET v == strip(value_str)
    IN  IF v = <<>> THEN Raise("Empty value.")
        ELSE IF lower(v) \in TrueWords THEN VBool(TRUE)
        ELSE IF lower(v) \in FalseWords THEN VBool(FALSE)
        ELSE IF NumberOk(v) THEN NumberOf(v)
        ELSE IF Contains(v, ",")
             THEN ParseParts([j \in 1..Len(split(v)) |-> strip(split(v)[j])], 1, <<>>)
             ELSE VStr(v)

(***************************************************************************)
(* The host's parameter handle.  A handle is a record                      *)
(*   name      the knob's name                                             *)
(*   kind      "String", "Enumeration", "Array", "Tab", "Text", "PyScript"  *)
(*   visible, enabled   "yes", "no", or "raise" when the query fails       *)
(*   arraySize the arity, -1 when arraySize() raises                       *)
(*   opts      the option labels of an enumeration                         *)
(*   value     what value() returns                                        *)
(*   expr      the expression bound to the whole handle, <<>> when none    *)
(*   host      how the host answers setValue / setExpression               *)
(*   calls     every setValue / setExpression made on the handle           *)
(* The script owns none of this; host is a parameter of the model.         *)
(***************************************************************************)
HostProfiles == {"ok", "noidx", "idx1", "err1", "reject", "unsupported"}

\* what the host answers to a call: "ok", "TypeError" or "Error"
HostResult(host, indexed, i) ==
    CASE host = "ok" -> "ok"
      [] host = "noidx" -> IF indexed THEN "TypeError" ELSE "ok"
      [] host = "idx1" -> IF indexed /\ i >= 1 THEN "TypeError" ELSE "ok"
      [] host = "err1" -> IF indexed /\ i = 1 THEN "Error" ELSE "ok"
      [] host = "reject" -> "Error"
      [] host = "unsupported" -> "TypeError"

\* one call on a handle; idx = -1 is a call without index
Call(op, arg, idx, res) == [op |-> op, arg |-> arg, idx |-> idx, res |-> res]

\* a faulty variant of IndexedLoop: the break after the whole-value fallback is missing
RECURSIVE IndexedLoopNoBreak(_, _, _, _, _, _)
IndexedLoopNoBreak(host, op, args, whole, i, calls) ==
    IF i >= Len(args) THEN [calls |-> calls, raised |-> "no"]
    ELSE LET r == HostResult(host, TRUE, i)
             c == Append(calls, Call(op, args[i + 1], i, r))
         IN  IF r = "ok" THEN IndexedLoopNoBreak(host, op, args, whole, i + 1, c)
             ELSE IF r = "TypeError"
                  THEN LET w == HostResult(host, FALSE, -1)
                       IN  IF w = "ok"
                           THEN IndexedLoopNoBreak(host, op, args, whole, i + 1,
                                                   Append(c, Call(op, whole, -1, w)))
                           ELSE [calls |-> Append(c, Call(op, whole, -1, w)), raised |-> w]
                  ELSE [calls |-> c, raised |-> r]

\* for i, val in enumerate(args): try: op(val, i) except TypeError: op(whole); break
RECURSIVE IndexedLoop(_, _, _, _, _, _)
IndexedLoop(host, op, args, whole, i, calls) ==
    IF i >= Len(args) THEN [calls |-> calls, raised |-> "no"]
    ELSE LET r == HostResult(host, TRUE, i)
             c == Append(calls, Call(op, args[i + 1], i, r))
         IN  IF r = "ok" THEN IndexedLoop(host, op, args, whole, i + 1, c)
             ELSE IF r = "TypeError"
                  THEN LET w == HostResult(host, FALSE, -1)
                       IN  [calls |-> Append(c, Call(op, whole, -1, w)),
                            raised |-> IF w = "ok" THEN "no" ELSE w]
                  ELSE [calls |-> c, raised |-> r]

\* op(whole)
SingleCall(host, op, whole) ==
    LET w == HostResult(host, FALSE, -1)
    IN  [calls |-> <<Call(op, whole, -1, w)>>, raised |-> IF w = "ok" THEN "no" ELSE w]

\* the handle after the calls: an accepted whole-value call replaces value or expr
RECURSIVE HostApply(_, _)
HostApply(knob, calls) ==
    IF calls = <<>> THEN knob
    ELSE LET c == Head(calls)
             k1 == [knob EXCEPT !.calls = Append(@, c)]
             k2 == IF c.res = "ok" /\ c.idx = -1
                   THEN IF c.op = "setValue" THEN [k1 EXCEPT !.value = c.arg]
                        ELSE [k1 EXCEPT !.expr = c.arg.s]
                   ELSE k1
         IN  HostApply(k2, Tail(calls))

\* what _set_knob_value_or_expression hands back: ret is "value", "expression" or
\* "raise" (with the message), knob the handle afterwards
Outcome(ret, msg, knob) == [ret |-> ret, msg |-> msg, knob |-> knob]

AfterCalls(knob, r, mode) ==
    Outcome(IF r.raised = "no" THEN mode ELSE "raise",
            IF r.raised = "no" THEN "" ELSE r.raised,
            HostApply(knob, r.calls))

(***************************************************************************)
(* _coerce_for_knob                                                        *)
(***************************************************************************)
\* ", ".join(str(x) for x in parsed) for a list, str(parsed) otherwise
StringForm(parsed) ==
    IF parsed.tag = "list"
    THEN join(<<",", " ">>, [i \in 1..Len(parsed.items) |-> ScalarStr(parsed.items[i])])
    ELSE Str(parsed)

\* the first index (from 0) among the positions that match, -1 when none does
FirstIndex(hits) ==
    IF hits = {} THEN -1
    ELSE (CHOOSE i \in hits : \A j \in hits : i <= j) - 1

\* a faulty variant of _coerce_for_knob: the case-insensitive match is tried first
CoerceNoCaseFirst(knob, parsed) ==
    IF knob.kind = "String" THEN VStr(StringForm(parsed))
    ELSE IF knob.kind = "Enumeration" /\ parsed.tag = "str"
    THEN LET nocase == FirstIndex({i \in 1..Len(knob.opts) : lower(knob.opts[i]) = lower(parsed.s)})
         IN  IF nocase >= 0 THEN VInt(nocase) ELSE parsed
    ELSE parsed

_coerce_for_knob(knob, parsed) ==
    IF knob.kind = "String" THEN VStr(StringForm(parsed))
    ELSE IF knob.kind = "Enumeration" /\ parsed.tag = "str"
    THEN LET exact == FirstIndex({i \in 1..Len(knob.opts) : knob.opts[i] = parsed.s})
             nocase == FirstIndex({i \in 1..Len(knob.opts) : lower(knob.opts[i]) = lower(parsed.s)})
         IN  IF exact >= 0 THEN VInt(exact)
             ELSE IF nocase >= 0 THEN VInt(nocase)
             ELSE parsed
    ELSE parsed

(***************************************************************************)
(* _set_knob_value_or_expression                                           *)
(***************************************************************************)
\* Python truth of a value
Truthy(x) ==
    CASE x.tag = "str" -> x.s # <<>>
      [] x.tag = "list" -> x.items # <<>>
      [] OTHER -> x.n # 0

\* a faulty variant of LabelAppend: the new text overwrites the existing text
LabelOverwrite(knob, parsed) ==
    IF knob.name # "label" THEN parsed ELSE VStr(Str(parsed))

\* the "label" knob: append to the existing text instead of overwriting.  A truthy
\* existing value that is no text has no strip(): the error is swallowed and the
\* value stays as it was.
LabelAppend(knob, parsed) ==
    IF knob.name # "label" THEN parsed
    ELSE IF ~Truthy(knob.value) THEN VStr(Str(parsed))
    ELSE IF knob.value.tag # "str" THEN parsed
    ELSE IF strip(knob.value.s) # <<>>
         THEN VStr(rstrip(knob.value.s) \o <<"\n">> \o Str(parsed))
         ELSE VStr(Str(parsed))

\* the value assignment: element by element for a list, once otherwise
AssignValue(knob, parsed) ==
    IF parsed.tag = "list"
    THEN AfterCalls(knob, IndexedLoop(knob.host, "setValue", parsed.items, parsed, 0, <<>>), "value")
    ELSE AfterCalls(knob, SingleCall(knob.host, "setValue", parsed), "value")

\* the expression bind: at every index when the arity is above 1, once otherwise
BindExpression(knob, expr) ==
    IF knob.arraySize > 1
    THEN AfterCalls(knob, IndexedLoop(knob.host, "setExpression",
                                      [i \in 1..knob.arraySize |-> VStr(expr)], VStr(expr), 0, <<>>),
                    "expression")
    ELSE AfterCalls(knob, SingleCall(knob.host, "setExpression", VStr(expr)), "expression")

\* the value that reaches the assignment in the mode-aware script
Coerced(knob, s) == LabelAppend(knob, _coerce_for_knob(knob, _parse_value(s)))

\* a faulty variant of _set_knob_value_or_expression: the "=" test reads the untrimmed input
SetKnobExprOnRaw(knob, raw_value_str) ==
    LET s == strip(raw_value_str)
    IN  IF s = <<>> THEN Outcome("raise", "Empty value.", knob)
        ELSE IF startswith(raw_value_str, "=")
        THEN IF strip(Tail(s)) = <<>> THEN Outcome("raise", "Empty expression.", knob)
             ELSE BindExpression(knob, strip(Tail(s)))
        ELSE AssignValue(knob, Coerced(knob, s))

\* src/MassKnobModifier/MassKnobModifier.py
_set_knob_value_or_expression(knob, raw_value_str) ==
    LET s == strip(raw_value_str)
    IN  IF s = <<>> THEN Outcome("raise", "Empty value.", knob)
        ELSE IF startswith(s, "=")
        THEN IF strip(Tail(s)) = <<>> THEN Outcome("raise", "Empty expression.", knob)
             ELSE BindExpression(knob, strip(Tail(s)))
        ELSE AssignValue(knob, Coerced(knob, s))

\* src/MassKnobModifier.py: no coercion, no label rule
SetKnobSelectionScript(knob, raw_value_str) ==
    LET s == strip(raw_value_str)
    IN  IF s = <<>> THEN Outcome("raise", "Empty value.", knob)
        ELSE IF startswith(s, "=")
        THEN IF strip(Tail(s)) = <<>> THEN Outcome("raise", "Empty expression.", knob)
             ELSE BindExpression(knob, strip(Tail(s)))
        ELSE AssignValue(knob, _parse_value(s))

SetKnob(script, knob, raw) ==
    IF script = "modes" THEN _set_knob_value_or_expression(knob, raw)
    ELSE SetKnobSelectionScript(knob, raw)

(***************************************************************************)
(* Inputs of the single-handle specification SpecKnob: every text of at    *)
(* most MaxLen characters over Alphabet, the texts the documentation       *)
(* names, and a family of handles.                                         *)
(***************************************************************************)
Alphabet == {" ", "=", ",", ".", "e", "E", "1"}

RECURSIVE Texts(_)
Texts(n) ==
    IF n = 0 THEN {<<>>}
    ELSE Texts(n - 1) \cup {Append(t, c) : t \in Texts(n - 1), c \in Alphabet}

Samples ==
    { <<"1", ",", "2", ",", "3">>, <<"1", ",", "a", ",", "3">>, <<"3", ".", "0">>,
      <<"3", "e", "2">>, <<"=", "x", "+", "1">>, <<"B", "i", "l">>, <<"b", "i", "l">>,
      <<"t", "r", "u", "e">>, <<"Y", "E", "S">>, <<"O", "n">>, <<"O", "F", "F">>,
      <<"P", "a", "s", "s", "2">>, <<"2", ".", "5">>, <<"1", "0">>, <<"0", "0", "7">>,
      <<" ", "=", " ", "1", "0", " ">>, <<"1", ".", "5", ",", " ", "2">> }

RawInputs == Texts(MaxLen) \cup Samples

Knob(name, kind, arraySize, opts, value, host) ==
    [name |-> name, kind |-> kind, visible |-> "yes", enabled |-> "yes",
     arraySize |-> arraySize, opts |-> opts, value |-> value, expr |-> <<>>,
     host |-> host, calls |-> <<>>]

\* existing texts of a "label" knob
LabelTexts ==
    { <<>>, <<" ">>, <<"P", "a", "s", "s", "1">>, <<"P", " ">>, <<"P", "\n">>, <<" ", "P">> }

\* option lists of an enumeration
FilterOpts == << <<"n", "e", "a", "r">>, <<"b", "i", "l">>, <<"c", "u", "b">> >>
OptLists ==
    { FilterOpts,
      << <<"E">>, <<"e">>, <<"e">> >>,
      << <<"E", "e">>, <<"e", "E">>, <<"e", "e">> >>,
      << <<"1">>, <<"E">> >> }

ProbeKnobs ==
    {Knob("label", "String", 1, <<>>, VStr(t), h) : t \in LabelTexts, h \in {"ok", "reject"}}
    \cup {Knob("frame", "String", 1, <<>>, VStr(<<"1">>), "ok")}
    \cup {Knob("filter", "Enumeration", 1, o, VStr(o[1]), "ok") : o \in OptLists}
    \cup {Knob("label", "Enumeration", 1, o, VStr(o[1]), "ok") : o \in {FilterOpts}}
    \cup {Knob("size", "Array", 3, <<>>, VFloat(<<0, 0>>), h) : h \in HostProfiles}
    \cup {Knob("mix", "Array", a, <<>>, VFloat(<<1, 0>>), "ok") : a \in {-1, 1, 2}}
    \cup {Knob("label", "Array", 2, <<>>, v, "ok") : v \in {VFloat(<<0, 0>>), VFloat(<<15, -1>>)}}

NoKnob == Knob("", "", 0, <<>>, VStr(<<>>), "ok")

(***************************************************************************)
(* The scene of the batch specification Spec: NumNodes nodes, a selection,  *)
(* and for each node how the host behaves on it.                           *)
(***************************************************************************)
EXCLUDE_KNOBS ==
    { "autolabel", "bookmark", "cached", "enable", "enable_mix_luminance", "help",
      "hide_input", "tile_color", "gl_color", "icon", "indicators", "inject", "Mask",
      "maskFrom", "maskFromFlag", "mix_luminance", "note_font_color", "onDestroy",
      "panel", "process_mask", "postage_stamp", "postage_stamp_frame", "useLifetime",
      "selected", "xpos", "ypos" }

\* the names skipped as internal/script knobs
HookKnobs == {"knobChanged", "onCreate", "updateUI"}

\* the kinds dropped as tabs, text labels and script buttons
StructuralKinds == {"Tab", "Text", "PyScript"}

\* the knob names of the scene in Python's sorted() order (upper case first)
KnobOrder == <<"User", "filter", "knobChanged", "label", "mix", "note", "size", "white", "xpos">>

Blur == <<"B", "l", "u", "r">>
Grade == <<"G", "r", "a", "d", "e">>

Nodes == 1..NumNodes
ClassOf(i) == IF i % 3 = 0 THEN Grade ELSE Blur
NameOf(i) == <<"Node", i>>

\* per node: "ok"; "miss" (knob("size") returns None although knobs() lists it);
\* "reject" (the host refuses every assignment on the node)
Profiles == {"ok", "miss", "reject"}

Flagged(k, visible, enabled) == [k EXCEPT !.visible = visible, !.enabled = enabled]

\* the handles of a node of class cls
HandlesOf(i, cls, host) ==
    LET common ==
            ("label" :> Knob("label", "String", 1, <<>>,
                             VStr(IF i = 1 THEN <<"P", "a", "s", "s", "1">> ELSE <<>>), host))
            @@ ("xpos" :> Knob("xpos", "Array", 1, <<>>, VInt(i), host))
            @@ ("knobChanged" :> Knob("knobChanged", "String", 1, <<>>, VStr(<<>>), host))
            @@ ("User" :> Knob("User", "Tab", 1, <<>>, VStr(<<>>), host))
    IN  IF cls = Blur
        THEN common
             @@ ("size" :> Knob("size", "Array", 2, <<>>, VFloat(<<0, 0>>), host))
             @@ ("filter" :> Knob("filter", "Enumeration", 1, FilterOpts, VStr(FilterOpts[1]), host))
             @@ ("note" :> Flagged(Knob("note", "String", 1, <<>>, VStr(<<>>), host), "no", "yes"))
        ELSE common
             @@ ("size" :> Knob("size", "Array", 1, <<>>, VFloat(<<1, 0>>), host))
             @@ ("white" :> Knob("white", "Array", 4, <<>>, VFloat(<<1, 0>>), host))
             @@ ("mix" :> Flagged(Knob("mix", "Array", 1, <<>>, VFloat(<<1, 0>>), host), "yes", "no"))
             @@ ("note" :> Flagged(Knob("note", "String", 1, <<>>, VStr(<<>>), host), "raise", "yes"))

\* a node: keys is knobs().keys(), knob[name] the handle knob(name) returns; a name
\* outside DOMAIN knob is a lookup that returns None
MakeNode(i, prof) ==
    LET h == HandlesOf(i, ClassOf(i), IF prof = "reject" THEN "reject" ELSE "ok")
    IN  [name |-> NameOf(i), cls |-> ClassOf(i), keys |-> DOMAIN h,
         knob |-> [k \in (IF prof = "miss" THEN DOMAIN h \ {"size"} ELSE DOMAIN h) |-> h[k]]]

\* nuke.selectedNodes(): nothing, every node, or the last node then the first
Selections == {<<>>, [i \in 1..NumNodes |-> i], <<NumNodes, 1>>}

\* class names typed into the panel
ClassNames == {<<>>, <<" ">> \o Blur, <<"g", "r", "a", "d", "e">>}

\* value texts typed into the panel
DriverValues == {<<>>, <<" ">>, <<"=", " ">>, <<"=", "e">>, <<"2", ".", "5">>, <<"1", ",", "1">>}

Modes == {"by selection", "by class", "by class from selection"}

\* errors[:10] in the report
MaxErrorLines == 10

(***************************************************************************)
(* _nodes_by_class, _selected_node_class, _common_knobs_for_nodes          *)
(***************************************************************************)
\* nuke.allNodes(): every node, in the host's order
_all_nodes_root == [i \in 1..NumNodes |-> i]

_nodes_by_class(ns, class_name) ==
    LET target == strip(class_name)
        exact == SelectSeq(_all_nodes_root, LAMBDA i : ns[i].cls = target)
    IN  IF target = <<>> THEN <<>>
        ELSE IF exact # <<>> THEN exact
        ELSE SelectSeq(_all_nodes_root, LAMBDA i : lower(ns[i].cls) = lower(target))

\* the class of the first selected node, <<>> for None
_selected_node_class(ns, selected) == IF selected = <<>> THEN <<>> ELSE ns[selected[1]].cls

\* the intersection of the key sets of the targets
CommonKeys(ns, targets) == {k \in ns[targets[1]].keys : \A j \in 1..Len(targets) : k \in ns[targets[j]].keys}

\* the filter on the first target's handle: not visible() or not enabled() drops the
\* name; a query that raises keeps it
Hidden(knob) ==
    IF knob.visible = "raise" THEN FALSE
    ELSE IF knob.visible = "no" THEN TRUE
    ELSE knob.enabled = "no"

\* a faulty variant of Usable: the exclusion set is not subtracted
UsableNoExclusion(ns, targets, k) ==
    /\ k \in DOMAIN ns[targets[1]].knob
    /\ k \notin HookKnobs
    /\ ~Hidden(ns[targets[1]].knob[k])
    /\ ns[targets[1]].knob[k].kind \notin StructuralKinds

\* a common name is listed
Usable(ns, targets, k) ==
    /\ k \notin EXCLUDE_KNOBS
    /\ k \in DOMAIN ns[targets[1]].knob
    /\ k \notin HookKnobs
    /\ ~Hidden(ns[targets[1]].knob[k])
    /\ ns[targets[1]].knob[k].kind \notin StructuralKinds

\* sorted(set(...)) over the names of the scene
Sorted(names) == SelectSeq(KnobOrder, LAMBDA k : k \in names)

_common_knobs_for_nodes(ns, targets) ==
    IF targets = <<>> THEN <<>>
    ELSE Sorted({k \in CommonKeys(ns, targets) : Usable(ns, targets, k)})

(***************************************************************************)
(* State.                                                                  *)
(*   probe  the single-handle harness of SpecKnob                          *)
(*   scene  the script that runs, the selection and the nodes' profiles    *)
(*   nodes  the host's nodes with their handles                            *)
(*   pc     where mass_knob_modifier is: "start", "dialog", "loop",        *)
(*          "report", "done" (returned), "raised" (left by an exception)   *)
(*   panel  the knobs of MassKnobModifierPanel while the dialog is open,   *)
(*          and source, the nodes its dropdown was computed from           *)
(*   run    the locals of mass_knob_modifier after the dialog              *)
(*   trace  the host's undo and assignment events in order: "begin",       *)
(*          "set" (one per target on which a call was made), "end"         *)
(*   msg    the last nuke.message shown                                    *)
(***************************************************************************)
VARIABLES probe, scene, nodes, pc, panel, run, trace, msg

vars == <<probe, scene, nodes, pc, panel, run, trace, msg>>
driverVars == <<scene, nodes, pc, panel, run, trace, msg>>

Probe(ppc, raw, script, knob, parsed, out) ==
    [pc |-> ppc, raw |-> raw, script |-> script, knob |-> knob, parsed |-> parsed, out |-> out]

ProbeIdle == Probe("off", <<>>, "", NoKnob, VStr(<<>>), Outcome("", "", NoKnob))

ClosedPanel == [mode |-> "", class_name |-> <<>>, items |-> <<>>, source |-> <<>>, knob |-> ""]

NoRun ==
    [accepted |-> FALSE, targets |-> <<>>, chosen |-> "", knob_name |-> "", knob_items |-> <<>>,
     value_str |-> <<>>, target_class |-> <<>>, i |-> 0, changed |-> 0, errors |-> <<>>,
     mode_used |-> ""]

\* the locals when mass_knob_modifier returns before the loop
Returned(value_str) == [NoRun EXCEPT !.accepted = TRUE, !.value_str = value_str]

NoReport ==
    [knob_name |-> "", expression |-> FALSE, shown_value |-> <<>>, changed |-> 0,
     target_class |-> <<>>, lines |-> <<>>, more |-> FALSE]

Message(text, arg) == [text |-> text, arg |-> arg, report |-> NoReport]
NoMessage == Message("", <<>>)

(***************************************************************************)
(* SpecKnob: one call of _parse_value or _set_knob_value_or_expression.    *)
(***************************************************************************)
DriverOff ==
    /\ scene = [script |-> "", sel |-> <<>>, prof |-> <<>>]
    /\ nodes = <<>>
    /\ pc = "off"
    /\ panel = ClosedPanel
    /\ run = NoRun
    /\ trace = <<>>
    /\ msg = NoMessage

ProbeInit ==
    /\ \E r \in RawInputs :
        probe = Probe("ready", r, "", NoKnob, VStr(<<>>), Outcome("", "", NoKnob))
    /\ DriverOff

\* _parse_value(raw)
ProbeParse ==
    /\ probe.pc = "ready"
    /\ probe' = [probe EXCEPT !.pc = "parsed", !.parsed = _parse_value(probe.raw)]
    /\ UNCHANGED driverVars

\* _set_knob_value_or_expression(knob, raw) of either script
ProbeSet ==
    /\ probe.pc = "ready"
    /\ \E sc \in {"modes", "selection"}, k \in ProbeKnobs :
        probe' = [probe EXCEPT !.pc = "set", !.script = sc, !.knob = k,
                               !.out = SetKnob(sc, k, probe.raw)]
    /\ UNCHANGED driverVars

NextKnob == ProbeParse \/ ProbeSet

SpecKnob == ProbeInit /\ [][NextKnob]_vars

(***************************************************************************)
(* Spec: mass_knob_modifier of either script on a scene.                   *)
(***************************************************************************)
Init ==
    /\ probe = ProbeIdle
    /\ \E sc \in {"modes", "selection"}, sel \in Selections, prof \in [Nodes -> Profiles] :
        /\ scene = [script |-> sc, sel |-> sel, prof |-> prof]
        /\ nodes = [i \in Nodes |-> MakeNode(i, prof[i])]
    /\ pc = "start"
    /\ panel = ClosedPanel
    /\ run = NoRun
    /\ trace = <<>>
    /\ msg = NoMessage

\* Enumeration_Knob("common_knobs", ..., knob_items if knob_items else [""])
OpenPanel(knob_items, source) ==
    LET items == IF knob_items = <<>> THEN <<"">> ELSE knob_items
    IN  [mode |-> "by selection", class_name |-> <<>>, items |-> items, source |-> source,
         knob |-> items[1]]

\* mass_knob_modifier up to showModalDialog.  The selection script lists the common
\* knobs of the selection first and returns with a message when there is nothing to
\* list; the mode-aware script always opens the panel.
Open ==
    /\ pc = "start"
    /\ LET items == _common_knobs_for_nodes(nodes, scene.sel)
       IN  IF scene.script = "modes"
           THEN /\ panel' = OpenPanel(items, scene.sel)
                /\ pc' = "dialog"
                /\ msg' = msg
           ELSE IF scene.sel = <<>>
           THEN pc' = "done" /\ msg' = Message("No nodes selected.", <<>>) /\ panel' = panel
           ELSE IF CommonKeys(nodes, scene.sel) = {}
           THEN pc' = "done" /\ msg' = Message("No common knobs found.", <<>>) /\ panel' = panel
           ELSE IF items = <<>>
           THEN pc' = "done" /\ msg' = Message("No usable common knobs found.", <<>>) /\ panel' = panel
           ELSE panel' = OpenPanel(items, scene.sel) /\ pc' = "dialog" /\ msg' = msg
    /\ UNCHANGED <<probe, scene, nodes, run, trace>>

\* the user changes the mode dropdown (knobChanged only changes what is visible)
SetMode ==
    /\ pc = "dialog" /\ scene.script = "modes"
    /\ \E m \in Modes \ {panel.mode} : panel' = [panel EXCEPT !.mode = m]
    /\ UNCHANGED <<probe, scene, nodes, pc, run, trace, msg>>

\* the user types a class name; the field is visible in mode "by class" only
SetClass ==
    /\ pc = "dialog" /\ scene.script = "modes" /\ panel.mode = "by class"
    /\ \E c \in ClassNames \ {panel.class_name} : panel' = [panel EXCEPT !.class_name = c]
    /\ UNCHANGED <<probe, scene, nodes, pc, run, trace, msg>>

\* the user picks another knob in the dropdown
PickKnob ==
    /\ pc = "dialog"
    /\ \E j \in 1..Len(panel.items) :
        /\ panel.items[j] # panel.knob
        /\ panel' = [panel EXCEPT !.knob = panel.items[j]]
    /\ UNCHANGED <<probe, scene, nodes, pc, run, trace, msg>>

\* "Update knobs": _refresh_knob_dropdown_for_mode; the button is visible in the
\* two class modes only.  When the class resolves to no node, or the nodes share no
\* usable knob, a modal message is shown and dismissed and the dropdown stays as it
\* was; otherwise the dropdown is refilled and keeps the current choice if it can.
RefreshedPanel ==
    LET class_name == IF panel.mode = "by class" THEN panel.class_name
                      ELSE _selected_node_class(nodes, scene.sel)
        targets == _nodes_by_class(nodes, class_name)
        knob_items == _common_knobs_for_nodes(nodes, targets)
    IN  IF targets = <<>> \/ knob_items = <<>> THEN panel
        ELSE [panel EXCEPT
                !.items = knob_items,
                !.source = targets,
                !.knob = IF \E j \in 1..Len(knob_items) : knob_items[j] = panel.knob
                         THEN panel.knob ELSE knob_items[1]]

Update ==
    /\ pc = "dialog" /\ scene.script = "modes" /\ panel.mode # "by selection"
    /\ panel' = RefreshedPanel
    /\ UNCHANGED <<probe, scene, nodes, pc, run, trace, msg>>

\* the dialog is cancelled
Cancel ==
    /\ pc = "dialog"
    /\ pc' = "done"
    /\ panel' = ClosedPanel
    /\ UNCHANGED <<probe, scene, nodes, run, trace, msg>>

\* a faulty variant of IsBlank: the text is not trimmed before the test
IsBlankUntrimmed(value_str) == value_str = <<>>

\* value_str is None or str(value_str).strip() == ""
IsBlank(value_str) == strip(value_str) = <<>>

\* the targets of the mode-aware script: [ok, msg, targets, target_class]
Resolved(ok, m, targets, target_class) ==
    [ok |-> ok, msg |-> m, targets |-> targets, target_class |-> target_class]

ResolveTargets(ns, sel, mode, class_name) ==
    IF mode = "by class"
    THEN LET targets == _nodes_by_class(ns, class_name)
         IN  IF targets = <<>>
             THEN Resolved(FALSE, Message("No nodes found with class", class_name), <<>>, <<>>)
             ELSE Resolved(TRUE, NoMessage, targets, ns[targets[1]].cls)
    ELSE IF mode = "by class from selection"
    THEN LET target_class == _selected_node_class(ns, sel)
             targets == _nodes_by_class(ns, target_class)
         IN  IF target_class = <<>>
             THEN Resolved(FALSE, Message("Select a node first (to choose the class).", <<>>), <<>>, <<>>)
             ELSE IF targets = <<>>
             THEN Resolved(FALSE, Message("No nodes found with class", target_class), <<>>, <<>>)
             ELSE Resolved(TRUE, NoMessage, targets, ns[targets[1]].cls)
    ELSE IF sel = <<>>
         THEN Resolved(FALSE, Message("No nodes selected.", <<>>), <<>>, <<>>)
         ELSE Resolved(TRUE, NoMessage, sel, <<>>)

\* nuke.Undo().begin / nuke.Undo().end
UndoBegin(tr) == Append(tr, "begin")
UndoEnd(tr) == Append(tr, "end")

\* a faulty variant of Finally: end() follows the loop without try/finally
FinallySkipped(tr) == tr

\* the finally clause when an exception leaves the loop
Finally(tr) == UndoEnd(tr)

\* a faulty variant of KnobNameUsed: the chosen name is used as it is
KnobNameAsChosen(knob_name, knob_items) == knob_name

\* if knob_name not in knob_items: knob_name = knob_items[0]
KnobNameUsed(knob_name, knob_items) ==
    IF \E j \in 1..Len(knob_items) : knob_items[j] = knob_name THEN knob_name ELSE knob_items[1]

\* the locals at nuke.Undo().begin; chosen is what panel.knobName() returned
StartLoop(targets, chosen, knob_name, knob_items, value_str, target_class) ==
    [accepted |-> TRUE, targets |-> targets, chosen |-> chosen, knob_name |-> knob_name,
     knob_items |-> knob_items, value_str |-> value_str, target_class |-> target_class,
     i |-> 1, changed |-> 0, errors |-> <<>>, mode_used |-> ""]

\* the dialog is accepted with a value text: mass_knob_modifier from the dialog's
\* return to nuke.Undo().begin, or to the message it returns with
AcceptModes(value_str) ==
    LET r == ResolveTargets(nodes, scene.sel, panel.mode, panel.class_name)
        knob_items == _common_knobs_for_nodes(nodes, r.targets)
        knob_name == KnobNameUsed(panel.knob, knob_items)
    IN  IF IsBlank(value_str)
        THEN pc' = "done" /\ msg' = Message("Value cannot be empty.", <<>>) /\ run' = Returned(value_str) /\ trace' = trace
        ELSE IF ~r.ok
        THEN pc' = "done" /\ msg' = r.msg /\ run' = Returned(value_str) /\ trace' = trace
        ELSE IF knob_items = <<>>
        THEN pc' = "done" /\ msg' = Message("No usable common knobs found.", <<>>) /\ run' = Returned(value_str) /\ trace' = trace
        ELSE /\ run' = StartLoop(r.targets, panel.knob, knob_name, knob_items, value_str, r.target_class)
             /\ trace' = UndoBegin(trace)
             /\ pc' = "loop"
             /\ msg' = msg

AcceptSelection(value_str) ==
    IF panel.knob = ""
    THEN pc' = "done" /\ msg' = Message("Please choose a knob.", <<>>) /\ run' = Returned(value_str) /\ trace' = trace
    ELSE IF IsBlank(value_str)
    THEN pc' = "done" /\ msg' = Message("Value cannot be empty.", <<>>) /\ run' = Returned(value_str) /\ trace' = trace
    ELSE /\ run' = StartLoop(scene.sel, panel.knob, panel.knob, panel.items, value_str, <<>>)
         /\ trace' = UndoBegin(trace)
         /\ pc' = "loop"
         /\ msg' = msg

Accept ==
    /\ pc = "dialog"
    /\ \E value_str \in DriverValues :
        IF scene.script = "modes" THEN AcceptModes(value_str) ELSE AcceptSelection(value_str)
    /\ panel' = ClosedPanel
    /\ UNCHANGED <<probe, scene, nodes>>

\* what one pass of the loop body leaves: the locals and the node
Step(r, node) == [run |-> r, node |-> node]

\* a faulty variant of ApplyStep: the first error ends the batch
ApplyStepAbort(script, r, node) ==
    IF r.knob_name \notin DOMAIN node.knob
    THEN Step([r EXCEPT !.i = @ + 1], node)
    ELSE LET out == SetKnob(script, node.knob[r.knob_name], r.value_str)
             node2 == [node EXCEPT !.knob[r.knob_name] = out.knob]
         IN  IF out.ret # "raise"
             THEN Step([r EXCEPT !.i = @ + 1, !.mode_used = out.ret, !.changed = @ + 1], node2)
             ELSE Step([r EXCEPT !.i = Len(r.targets) + 1,
                                 !.errors = Append(@, <<node.name, ": ", out.msg>>)], node2)

\* a faulty variant of ApplyStep: changed is counted for a target without the knob too
ApplyStepCountsSkipped(script, r, node) ==
    IF r.knob_name \notin DOMAIN node.knob
    THEN Step([r EXCEPT !.i = @ + 1, !.changed = @ + 1], node)
    ELSE LET out == SetKnob(script, node.knob[r.knob_name], r.value_str)
             node2 == [node EXCEPT !.knob[r.knob_name] = out.knob]
         IN  IF out.ret # "raise"
             THEN Step([r EXCEPT !.i = @ + 1, !.mode_used = out.ret, !.changed = @ + 1], node2)
             ELSE Step([r EXCEPT !.i = @ + 1,
                                 !.errors = Append(@, <<node.name, ": ", out.msg>>)], node2)

\* the loop body for one target: skip it when knob(knob_name) is None, else set the
\* knob, count it, or record "<node name>: <message>"
ApplyStep(script, r, node) ==
    IF r.knob_name \notin DOMAIN node.knob
    THEN Step([r EXCEPT !.i = @ + 1], node)
    ELSE LET out == SetKnob(script, node.knob[r.knob_name], r.value_str)
             node2 == [node EXCEPT !.knob[r.knob_name] = out.knob]
         IN  IF out.ret # "raise"
             THEN Step([r EXCEPT !.i = @ + 1, !.mode_used = out.ret, !.changed = @ + 1], node2)
             ELSE Step([r EXCEPT !.i = @ + 1,
                                 !.errors = Append(@, <<node.name, ": ", out.msg>>)], node2)

\* a call was made on the node's knob in this pass
Called(r, node, node2) ==
    /\ r.knob_name \in DOMAIN node.knob
    /\ node2.knob[r.knob_name].calls # node.knob[r.knob_name].calls

InLoop == pc = "loop" /\ run.i <= Len(run.targets)

\* one pass of the loop
Visit ==
    /\ InLoop
    /\ LET t == run.targets[run.i]
           step == ApplyStep(scene.script, run, nodes[t])
       IN  /\ run' = step.run
           /\ nodes' = [nodes EXCEPT ![t] = step.node]
           /\ trace' = IF Called(run, nodes[t], step.node) THEN Append(trace, "set") ELSE trace
    /\ UNCHANGED <<probe, scene, pc, panel, msg>>

\* an unexpected error: node.knob(knob_name) raises; the exception leaves the loop
\* through the finally clause
VisitLookupRaises ==
    /\ InLoop
    /\ trace' = Finally(trace)
    /\ pc' = "raised"
    /\ UNCHANGED <<probe, scene, nodes, panel, run, msg>>

\* an unexpected error: the setter raised and node.name() raises while the error
\* line is built; the exception leaves the loop through the finally clause
VisitNameRaises ==
    /\ InLoop
    /\ LET t == run.targets[run.i]
           step == ApplyStep(scene.script, run, nodes[t])
       IN  /\ Len(step.run.errors) > Len(run.errors)
           /\ nodes' = [nodes EXCEPT ![t] = step.node]
           /\ trace' = Finally(IF Called(run, nodes[t], step.node) THEN Append(trace, "set") ELSE trace)
    /\ pc' = "raised"
    /\ UNCHANGED <<probe, scene, panel, run, msg>>

\* the loop is over: nuke.Undo().end()
EndLoop ==
    /\ pc = "loop" /\ run.i > Len(run.targets)
    /\ trace' = UndoEnd(trace)
    /\ pc' = "report"
    /\ UNCHANGED <<probe, scene, nodes, panel, run, msg>>

\* the text shown as the value: trimmed, without the leading "="
ShownValue(value_str) ==
    IF startswith(strip(value_str), "=") THEN strip(Tail(strip(value_str))) ELSE strip(value_str)

\* the summary message
Report ==
    /\ pc = "report"
    /\ msg' = [text |-> "Changed", arg |-> <<>>,
               report |-> [knob_name |-> run.knob_name,
                           expression |-> run.mode_used = "expression",
                           shown_value |-> ShownValue(run.value_str),
                           changed |-> run.changed,
                           target_class |-> run.target_class,
                           lines |-> SubSeq(run.errors, 1,
                                            IF Len(run.errors) > MaxErrorLines THEN MaxErrorLines
                                            ELSE Len(run.errors)),
                           more |-> Len(run.errors) > MaxErrorLines]]
    /\ pc' = "done"
    /\ UNCHANGED <<probe, scene, nodes, panel, run, trace>>

Next ==
    \/ Open \/ SetMode \/ SetClass \/ PickKnob \/ Update \/ Cancel \/ Accept
    \/ Visit \/ VisitLookupRaises \/ VisitNameRaises \/ EndLoop \/ Report

Spec == Init /\ [][Next]_vars

(***************************************************************************)
(* Properties of one handle (SpecKnob).                                    *)
(***************************************************************************)
ProbeText == strip(probe.raw)
ProbeCalls == probe.out.knob.calls
Min(S) == CHOOSE m \in S : \A y \in S : m <= y

\* the input is "=" followed by non-blank text
IsExpressionInput(raw) == startswith(strip(raw), "=") /\ strip(Tail(strip(raw))) # <<>>
\* the input is a literal: non-blank and not starting with "="
IsLiteralInput(raw) == strip(raw) # <<>> /\ ~startswith(strip(raw), "=")

\* C5: an input whose trimmed text is "=" followed by non-blank text is bound as an
\* expression, whatever the handle's kind or name and however numeric the text
\* looks: every call made is setExpression with the trimmed remainder as text, no
\* setValue is made, the handle's value (so, the label text) is untouched, and the
\* mode returned is "expression" unless the host refuses the bind.
C5_ExpressionNeverLiteral ==
    (probe.pc = "set" /\ IsExpressionInput(probe.raw)) =>
        LET expr == strip(Tail(ProbeText))
        IN  /\ ProbeCalls # <<>>
            /\ \A i \in 1..Len(ProbeCalls) :
                 ProbeCalls[i].op = "setExpression" /\ ProbeCalls[i].arg = VStr(expr)
            /\ probe.out.knob.value = probe.knob.value
            /\ probe.out.ret = (IF ProbeCalls[Len(ProbeCalls)].res = "ok" THEN "expression" ELSE "raise")
            /\ (probe.out.ret = "expression" /\ Len(ProbeCalls) = 1) => probe.out.knob.expr = expr

\* C5 witness: "=1" on a String-kind "label" knob is bound as the expression "1"
C5_Witness ==
    /\ probe.pc = "set" /\ probe.script = "modes"
    /\ probe.raw = <<" ", "=", "1">>
    /\ probe.knob.name = "label" /\ probe.knob.kind = "String"
    /\ probe.knob.value = VStr(<<"P", "a", "s", "s", "1">>)
    /\ probe.out.ret = "expression"
    /\ probe.out.knob.expr = <<"1">>

\* the trimmed comma-separated parts of a text, read off the text itself: part j
\* lies between the (j-1)th and the jth comma
CommaAt(v) == {i \in 1..Len(v) : v[i] = ","}
Bounds(v) == CommaAt(v) \cup {0, Len(v) + 1}
PartsOf(v) ==
    [j \in 1..(Cardinality(CommaAt(v)) + 1) |->
        LET lo == CHOOSE b \in Bounds(v) : Cardinality({c \in Bounds(v) : c < b}) = j - 1
            hi == CHOOSE b \in Bounds(v) : Cardinality({c \in Bounds(v) : c < b}) = j
        IN  strip(SubSeq(v, lo + 1, hi - 1))]

\* C6: a literal holding a comma parses to a list with one element per part, in
\* input order, and the list is homogeneous: the numbers when every trimmed part is
\* a number (float when the part holds "." or "e"/"E", int otherwise), and otherwise
\* all the trimmed parts as strings, those that would have parsed included.
C6_ListHomogeneous ==
    (probe.pc = "parsed" /\ Contains(ProbeText, ",")) =>
        LET parts == PartsOf(ProbeText)
            p == probe.parsed
        IN  /\ p.tag = "list"
            /\ Len(p.items) = Len(parts)
            /\ IF \A j \in 1..Len(parts) : NumberOk(parts[j])
               THEN \A j \in 1..Len(parts) :
                      /\ p.items[j].tag = (IF Contains(parts[j], ".") \/ Contains(parts[j], "e")
                                              \/ Contains(parts[j], "E")
                                           THEN "float" ELSE "int")
                      /\ p.items[j] = NumberOf(parts[j])
               ELSE \A j \in 1..Len(parts) : p.items[j] = VStr(parts[j])
            /\ probe.raw = <<"1", ",", "2", ",", "3">> => p.items = <<VInt(1), VInt(2), VInt(3)>>
            /\ probe.raw = <<"1", ".", "5", ",", " ", "2">> => p.items = <<VFloat(<<15, -1>>), VInt(2)>>

\* C6 witness: "1,a,3" parses to the strings "1", "a", "3"
C6_Witness ==
    /\ probe.pc = "parsed"
    /\ probe.raw = <<"1", ",", "a", ",", "3">>
    /\ probe.parsed = VList(<<VStr(<<"1">>), VStr(<<"a">>), VStr(<<"3">>)>>)

\* the case C7 is about: the mode-aware script, an enumeration, a literal that parses
\* to a string
EnumCase ==
    /\ probe.pc = "set" /\ probe.script = "modes"
    /\ probe.knob.kind = "Enumeration"
    /\ IsLiteralInput(probe.raw)
    /\ _parse_value(probe.raw).tag = "str"

\* index of the first exact match, else of the first match ignoring case, else the text
EnumExpected ==
    LET opts == probe.knob.opts
        exact == {i \in 1..Len(opts) : opts[i] = ProbeText}
        nocase == {i \in 1..Len(opts) : lower(opts[i]) = lower(ProbeText)}
    IN  IF exact # {} THEN VInt(Min(exact) - 1)
        ELSE IF nocase # {} THEN VInt(Min(nocase) - 1)
        ELSE VStr(ProbeText)

EnumAssigned ==
    /\ Len(ProbeCalls) = 1
    /\ ProbeCalls[1].op = "setValue" /\ ProbeCalls[1].idx = -1
    /\ ProbeCalls[1].arg = EnumExpected

LabelCase ==
    /\ probe.pc = "set" /\ probe.script = "modes"
    /\ probe.knob.name = "label" /\ probe.knob.value.tag = "str"
    /\ IsLiteralInput(probe.raw)

\* the new text T: the string form of the parsed and kind-coerced input
NewText == Str(_coerce_for_knob(probe.knob, _parse_value(probe.raw)))

LabelAssigned(text) ==
    /\ Len(ProbeCalls) = 1
    /\ ProbeCalls[1].op = "setValue" /\ ProbeCalls[1].idx = -1
    /\ ProbeCalls[1].arg = VStr(text)

\* C8 as stated: existing text E is kept whole, E then newline then T; T alone only
\* when there is no existing text.
C8_LabelKeepsExisting ==
    LabelCase =>
        LET E == probe.knob.value.s
        IN  IF E # <<>> THEN LabelAssigned(E \o <<"\n">> \o NewText) ELSE LabelAssigned(NewText)

\* C8 as amended: existing text that is not blank is kept up to its last
\* non-whitespace character, then newline, then T; T alone when the existing text
\* is empty or blank.  A plain word is its own T.
C8_LabelAppendsTrimmed ==
    LabelCase =>
        LET E == probe.knob.value.s
            inked == {i \in 1..Len(E) : E[i] \notin Whitespace}
        IN  /\ IF inked # {}
               THEN LabelAssigned(SubSeq(E, 1, Len(E) - Cardinality({i \in 1..Len(E) : \A j \in inked : j < i}))
                                  \o <<"\n">> \o NewText)
               ELSE LabelAssigned(NewText)
            /\ (probe.knob.kind = "String" /\ _parse_value(probe.raw).tag = "str") => NewText = ProbeText

\* C8 witness: "Pass1" and input "Pass2" give "Pass1\nPass2"
C8_Witness ==
    /\ LabelCase /\ probe.knob.kind = "String"
    /\ probe.knob.value = VStr(<<"P", "a", "s", "s", "1">>)
    /\ probe.raw = <<"P", "a", "s", "s", "2">>
    /\ probe.out.ret = "value"
    /\ probe.out.knob.value = VStr(<<"P", "a", "s", "s", "1", "\n", "P", "a", "s", "s", "2">>)

\* the value that reaches the assignment step of the script that ran
ProbeAssigned ==
    IF probe.script = "modes" THEN Coerced(probe.knob, ProbeText) ELSE _parse_value(probe.raw)

\* C10: a list of k elements is assigned element by element at indices 0, 1, ... in
\* increasing order: k indexed calls and no whole-value call when none is refused; at
\* the first TypeError exactly one whole-value call of the entire list follows and
\* nothing after it; any other error ends the calls.  A value that is no list is
\* assigned by exactly one call.
C10_AssignmentShape ==
    (probe.pc = "set" /\ IsLiteralInput(probe.raw)) =>
        LET v == ProbeAssigned
            k == Len(v.items)
            c == ProbeCalls
            indexed == {m \in 1..Len(c) : c[m].idx # -1}
            j == Cardinality(indexed)
        IN  /\ \A m \in 1..Len(c) : c[m].op = "setValue"
            /\ IF v.tag = "list"
               THEN /\ indexed = 1..j /\ j <= k
                    /\ \A m \in 1..j : c[m].idx = m - 1 /\ c[m].arg = v.items[m]
                    /\ \A m \in 1..(j - 1) : c[m].res = "ok"
                    /\ \/ j = k /\ Len(c) = k /\ c[k].res = "ok"
                       \/ /\ c[j].res = "TypeError" /\ Len(c) = j + 1
                          /\ c[j + 1].idx = -1 /\ c[j + 1].arg = v
                       \/ c[j].res = "Error" /\ Len(c) = j
               ELSE Len(c) = 1 /\ c[1].idx = -1 /\ c[1].arg = v

\* C10 witness: "1,1" on a handle that refuses index 1: index 0, index 1 (refused),
\* then the whole list, and the handle holds the list
C10_Witness ==
    /\ probe.pc = "set" /\ probe.knob.host = "idx1"
    /\ probe.raw = <<"1", ",", "1">>
    /\ Len(ProbeCalls) = 3
    /\ ProbeCalls[2].idx = 1 /\ ProbeCalls[2].res = "TypeError"
    /\ ProbeCalls[3].idx = -1 /\ ProbeCalls[3].res = "ok"
    /\ probe.out.knob.value = VList(<<VInt(1), VInt(1)>>)

(***************************************************************************)
(* Properties of the batch (Spec).                                         *)
(***************************************************************************)
\* the loop was entered
RunStarted == run.i >= 1

\* the positions of the target list the loop has passed
Passed == 1..(run.i - 1)

TargetAt(j) == nodes[run.targets[j]]
HasKnobAt(j) == run.knob_name \in DOMAIN TargetAt(j).knob
HandleAt(j) == TargetAt(j).knob[run.knob_name]

\* nothing but blanks
BlankValue(v) == \A i \in 1..Len(v) : v[i] \in Whitespace

\* "=" followed by nothing but blanks
BlankExpression(v) == startswith(strip(v), "=") /\ strip(Tail(strip(v))) = <<>>

\* applying the value to the target at position j raises: the expression text is
\* blank, or the host refuses the assignment
RaisesAt(j) == HasKnobAt(j) /\ (BlankExpression(run.value_str) \/ HandleAt(j).host = "reject")
MessageAt(j) == IF BlankExpression(run.value_str) THEN "Empty expression." ELSE "Error"
SucceedsAt(j) == HasKnobAt(j) /\ ~RaisesAt(j)

\* the handle holds an accepted assignment
MutatedAt(j) ==
    /\ HandleAt(j).calls # <<>>
    /\ HandleAt(j).calls[Len(HandleAt(j).calls)].res = "ok"

\* the node is as the scene made it
Untouched(t) == nodes[t] = MakeNode(t, scene.prof[t])

\* some call was made on a handle of the node
Touched(t) == \E k \in DOMAIN nodes[t].knob : nodes[t].knob[k].calls # <<>>

Count(tr, ev) == Cardinality({i \in 1..Len(tr) : tr[i] = ev})

\* C1: a run that reaches the loop begins the undo transaction exactly once, before
\* the first assignment, and ends it exactly once, after the last, on every way out:
\* the loop finishing, a target's error, an exception leaving the loop.  No
\* assignment is made outside the open transaction and no run ends with it open.
C1_OneUndoTransaction ==
    /\ Count(trace, "begin") <= 1
    /\ trace # <<>> => trace[1] = "begin"
    /\ \A i \in 1..Len(trace) : trace[i] = "end" => i = Len(trace)
    /\ Count(trace, "set") = Cardinality({t \in DOMAIN nodes : Touched(t)})
    /\ ~RunStarted => trace = <<>>
    /\ pc = "loop" => Count(trace, "begin") = 1 /\ Count(trace, "end") = 0
    /\ (RunStarted /\ pc \in {"report", "done", "raised"}) =>
          Count(trace, "begin") = 1 /\ Count(trace, "end") = 1

\* C1 witness: an exception left the loop after a target had been changed, and the
\* transaction is closed
C1_Witness ==
    /\ pc = "raised"
    /\ run.changed >= 1
    /\ Count(trace, "set") >= 1
    /\ trace[1] = "begin" /\ trace[Len(trace)] = "end"

\* the error lines of the first n positions
RECURSIVE ErrorsUpTo(_)
ErrorsUpTo(n) ==
    IF n = 0 THEN <<>>
    ELSE IF RaisesAt(n) THEN Append(ErrorsUpTo(n - 1), <<NameOf(run.targets[n]), ": ", MessageAt(n)>>)
    ELSE ErrorsUpTo(n - 1)

\* C2: a target whose assignment raises adds exactly one line "<its name>:
\* <message>" and is not counted; the targets after it are still attempted and
\* counted when they succeed; what was assigned before it stays assigned.  (An
\* exception outside the setter, as in C1, ends the batch at its target.)
C2_ErrorContained ==
    RunStarted =>
        /\ run.errors = ErrorsUpTo(run.i - 1)
        /\ run.changed = Cardinality({j \in Passed : SucceedsAt(j)})
        /\ \A j \in Passed : SucceedsAt(j) => MutatedAt(j)
        /\ pc \in {"report", "done"} => run.i = Len(run.targets) + 1

\* C2 witness: three targets, the second refused by the host: one error line naming
\* it, the first and the third changed and counted
C2_Witness ==
    /\ pc = "done" /\ Len(run.targets) >= 3
    /\ SucceedsAt(1) /\ RaisesAt(2) /\ SucceedsAt(3)
    /\ MutatedAt(1) /\ MutatedAt(3)
    /\ run.errors = << <<NameOf(run.targets[2]), ": ", "Error">> >>
    /\ run.changed = Len(run.targets) - 1

\* C3 as stated: a blank value, or "=" followed by blank text, returns before the
\* loop: no target visited, no call made, no per-target error.
C3_EmptyInputAborts ==
    (run.accepted /\ (BlankValue(run.value_str) \/ BlankExpression(run.value_str))) =>
        /\ ~RunStarted
        /\ trace = <<>>
        /\ run.errors = <<>>
        /\ \A t \in DOMAIN nodes : Untouched(t)

\* C3 as amended: a blank value returns before the loop with "Value cannot be
\* empty.": no target visited, no call made, no per-target error.  "=" followed by
\* blank text passes that test and reaches the loop: no call is made and no node
\* changes, nothing is counted, and every target that has the knob adds the line
\* "<its name>: Empty expression.".
C3_BlankValueAbortsBlankExpressionPerTarget ==
    /\ (run.accepted /\ BlankValue(run.value_str)) =>
          /\ pc = "done" /\ ~RunStarted
          /\ msg = Message("Value cannot be empty.", <<>>)
          /\ trace = <<>>
          /\ run.errors = <<>>
          /\ \A t \in DOMAIN nodes : Untouched(t)
    /\ (run.accepted /\ BlankExpression(run.value_str)) =>
          /\ \A t \in DOMAIN nodes : Untouched(t)
          /\ Count(trace, "set") = 0
          /\ run.changed = 0
          /\ Len(run.errors) = Cardinality({j \in Passed : HasKnobAt(j)})
          /\ \A j \in 1..Len(run.errors) : run.errors[j][3] = "Empty expression."

\* C3 witness: "= " on several targets: the loop ran inside a transaction, every
\* target added an error line, nothing changed
C3_Witness ==
    /\ pc = "done" /\ RunStarted
    /\ run.value_str = <<"=", " ">>
    /\ Len(run.targets) >= 2
    /\ Len(run.errors) = Len(run.targets)
    /\ trace = <<"begin", "end">>
    /\ msg.report.changed = 0 /\ Len(msg.report.lines) = Len(run.targets)

\* C4: when no assignment raises, exactly the targets that have the knob are
\* changed and counted; a target without it is left as it was and adds no error.
C4_OnlyOwnersChanged ==
    (RunStarted /\ pc \in {"report", "done"} /\ \A j \in 1..Len(run.targets) : ~RaisesAt(j)) =>
        /\ run.changed = Cardinality({j \in 1..Len(run.targets) : HasKnobAt(j)})
        /\ run.errors = <<>>
        /\ \A j \in 1..Len(run.targets) :
             IF HasKnobAt(j) THEN MutatedAt(j) ELSE Untouched(run.targets[j])
        /\ \A t \in DOMAIN nodes :
             (\A j \in 1..Len(run.targets) : run.targets[j] # t) => Untouched(t)
        /\ pc = "done" => msg.report.changed = run.changed /\ msg.report.lines = <<>>

\* C4 witness: three targets of which two have the knob: two changed, no error
C4_Witness ==
    /\ pc = "done" /\ Len(run.targets) = 3
    /\ Cardinality({j \in 1..3 : HasKnobAt(j)}) = 2
    /\ \E j \in 1..3 : ~HasKnobAt(j) /\ Untouched(run.targets[j])
    /\ run.changed = 2 /\ run.errors = <<>>
    /\ msg.report.changed = 2

\* every listed name is outside the exclusion set and the hook names, and on every
\* target
ListedOk(items, targets) ==
    \A j \in 1..Len(items) :
        /\ items[j] \notin EXCLUDE_KNOBS \cup HookKnobs
        /\ \A n \in 1..Len(targets) : items[j] \in nodes[targets[n]].keys

\* C9: the common editable knobs of a non-empty target list never hold a name of
\* the exclusion set or a hook name, even when it is on every target, visible and
\* enabled; every name listed is on every target.
C9_ListedNamesAllowedAndCommon ==
    /\ (pc = "dialog" /\ panel.items # <<"">>) => ListedOk(panel.items, panel.source)
    /\ RunStarted => ListedOk(run.knob_items, run.targets)

\* C9 witness: "xpos" and "knobChanged" are on every target, visible and enabled,
\* and the list holds neither
C9_Witness ==
    /\ pc = "loop" /\ Len(run.targets) >= 2
    /\ \A n \in 1..Len(run.targets), k \in {"xpos", "knobChanged"} :
         /\ k \in nodes[run.targets[n]].keys
         /\ k \in DOMAIN nodes[run.targets[n]].knob
         /\ nodes[run.targets[n]].knob[k].visible = "yes"
         /\ nodes[run.targets[n]].knob[k].enabled = "yes"
    /\ run.knob_items = <<"label", "size">>

\* the names of a list
NamesOf(items) == {items[j] : j \in 1..Len(items)}

\* the messages mass_knob_modifier of the mode-aware script returns with before the loop
AbortTexts ==
    { "Value cannot be empty.", "No nodes found with class",
      "Select a node first (to choose the class).", "No nodes selected.",
      "No usable common knobs found." }

\* C11: in the mode-aware script the name every assignment of a batch goes to is one
\* of the common editable knobs computed on the targets resolved when the dialog is
\* accepted: the chosen name when it is in that list, and otherwise the first name of
\* the sorted list, without a message and without an error line for the choice.  The
\* value is applied to that knob on every target that has it, and calls are made on
\* no other knob and no other node: never on a knob of the exclusion set or a hook
\* name.
C11_NameFromApplyTimeList ==
    scene.script = "modes" =>
        /\ RunStarted =>
              /\ run.knob_items = _common_knobs_for_nodes(nodes, run.targets)
              /\ run.knob_items # <<>>
              /\ run.knob_name \in NamesOf(run.knob_items)
              /\ run.knob_name = (IF run.chosen \in NamesOf(run.knob_items)
                                  THEN run.chosen ELSE run.knob_items[1])
              /\ run.knob_name \notin EXCLUDE_KNOBS \cup HookKnobs
              /\ \A j \in 1..Len(run.errors) : run.errors[j][3] \in {"Error", "Empty expression."}
              /\ pc = "loop" => msg = NoMessage
              /\ \A j \in Passed :
                    (HasKnobAt(j) /\ ~BlankExpression(run.value_str)) => HandleAt(j).calls # <<>>
        /\ (run.accepted /\ ~RunStarted) => msg.text \in AbortTexts
        /\ \A t \in DOMAIN nodes : \A k \in DOMAIN nodes[t].knob :
              nodes[t].knob[k].calls # <<>> =>
                  /\ RunStarted
                  /\ k = run.knob_name
                  /\ t \in NamesOf(run.targets)

\* C11 witness: "filter" was chosen from a list of Blur nodes, the targets resolved by
\* class are Grade nodes that list no "filter": "label", the first name of their list,
\* was set on them, "filter" on no node, and the report names "label"
C11_Witness ==
    /\ scene.script = "modes" /\ pc = "done" /\ RunStarted
    /\ run.chosen = "filter"
    /\ "filter" \notin NamesOf(run.knob_items)
    /\ run.knob_name = "label" /\ run.knob_items[1] = "label"
    /\ run.changed = Len(run.targets) /\ run.errors = <<>>
    /\ \A j \in 1..Len(run.targets) : MutatedAt(j)
    /\ \A t \in DOMAIN nodes : "filter" \in DOMAIN nodes[t].knob => nodes[t].knob["filter"].calls = <<>>
    /\ msg.report.knob_name = "label"
====
